---- MODULE Spec2Model ----
(***************************************************************************)
(* Model of the translator tools of GamingMouseWebSoftwares:               *)
(*   translator/apply_translations.py      (TranslationApplicator)         *)
(*   translator/translate_googletranslate.py (LocalMassTranslator)         *)
(*                                                                         *)
(* Text is a sequence of one-character strings.  "x" and "y" stand for two *)
(* characters of the CJK ranges, "a" for a Latin letter.                   *)
(*                                                                         *)
(* The specifications of the module:                                       *)
(*   SpecApply   apply_translations_to_file on one file, called repeatedly *)
(*   Spec        translate runs (run / the single-file path of main)       *)
(*               against one store file, stepped at every backend call     *)
(*   SpecMerge   the merge and save that end a run, on any two mappings    *)
(*   SpecExtract extract_chinese_strings_from_file on any text             *)
(*   SpecWalk    the walks and single-file paths of both tools on a tree   *)
(*   SpecSave    save_translations step by step, the process stopping      *)
(*               at any point                                              *)
(*   SpecCover   extraction, a store with one entry per extracted string,  *)
(*               then one Applicator pass over the same text               *)
(*   SpecBackup  Applicator runs with their backups, in directory and in   *)
(*               single-file mode                                          *)
(*   SpecLocal   runs of translator/translate_local.py against its output  *)
(*               file                                                      *)
(***************************************************************************)
EXTENDS Integers, Sequences, FiniteSets, TLC

VARIABLES
    \* ---- TranslationApplicator (SpecApply) ----
    translations,       \* self.translations: sequence of <<key, value>> in insertion order
    fileContent,        \* decoded text of the target file on disk
    original_content,   \* content read by the last call (line 100)
    replacements_made,  \* self.replacements_made
    applyRet,           \* return value of the last call
    applyHits,          \* occurrences counted per sorted entry by the last call
    fileWrites,         \* number of times the file was opened for writing
    applyCalls,         \* number of calls made so far
    \* ---- LocalMassTranslator (Spec) ----
    storeFile,          \* the store file: [exists, valid: its text parses as JSON,
                        \*   members: the <<key, value>> pairs written in it]
    threshold,          \* self.threshold
    google_translate_ready,
    argos_translator_ready,
    pc,                 \* position inside the current run
    existing_translations,
    chinese_strings,    \* result of the scan
    new_strings_to_translate,
    branch,             \* branch of translate_all taken
    long_strings,       \* strings handed to translate_batch_with_google_api
    short_strings,      \* strings handed one by one to translate_with_argos
    googleLeft,         \* strings of long_strings not yet posted
    translation_dict,   \* translate_batch_with_google_api: results so far
    google_translations,\* value returned by translate_batch_with_google_api
    all_translations,   \* translate_all: results so far / returned
    batchLog,           \* sequence of [batch, outcome, empties] posted so far
    googleCalled,       \* translate_batch_with_google_api was entered
    argosCalls,         \* strings passed to translate_with_argos
    savedBefore,        \* the store file as it was when the run started
    runResult,          \* how the last run ended
    everStored,         \* history: every <<key, value>> ever saved with a value that is no placeholder
    \* ---- the file tree the tools work on (SpecWalk) ----
    tree,               \* the files in os.walk order: [dir, name, decodable]
    translations_file,  \* the Applicator's store: name of a file of the top directory
    walkOp,             \* the operation that was run on the tree
    scannedFiles,       \* files passed to extract_chinese_strings_from_file
    processed,          \* files passed to apply_translations_to_file, in order
    modified,           \* files apply_translations_to_file wrote
    backupDir,          \* <dir>__backup: [exists, complete, content of the file in it]
    backupFile,         \* <path>.backup: [exists, complete, content]
    lastRun             \* the last run of the Applicator: [mode, backup]

applyVars == <<translations, fileContent, original_content, replacements_made,
               applyRet, applyHits, fileWrites, applyCalls>>

runVars == <<storeFile, threshold, google_translate_ready, argos_translator_ready,
             pc, existing_translations, chinese_strings,
             new_strings_to_translate, branch, long_strings, short_strings,
             googleLeft, translation_dict, google_translations,
             all_translations, batchLog, googleCalled, argosCalls, savedBefore,
             runResult, everStored>>

walkVars == <<tree, translations_file, walkOp, scannedFiles, processed, modified,
              backupDir, backupFile, lastRun>>

vars == <<applyVars, runVars, walkVars>>

----------------------------------------------------------------------------
(* Bounds of the model *)

MaxContentLen == 3      \* longest file content
MaxKeys == 3            \* most entries in the applicator's store
MaxApplyCalls == 2      \* calls of apply_translations_to_file per behaviour
MaxStrLen == 4          \* longest scanned string

----------------------------------------------------------------------------
(* Characters and text *)

DQ == "\""
SQ == "'"
BS == "\\"

ContentAlphabet == {"x", "y"}

\* keys of the applicator's store
KeyPool == { <<"x">>, <<"x", "y">>, <<"x", "x">> }

\* values of the applicator's store: a translation, an empty translation,
\* a translation that kept a CJK character, a bracket-wrapped placeholder,
\* a translation made of a double and a single quote
TransPool == { <<"a">>, <<>>, <<"x">>, <<"[", "a", "]">>, <<DQ, SQ>> }

RECURSIVE TextsUpTo(_)
TextsUpTo(n) ==
    IF n = 0 THEN { <<>> }
    ELSE LET shorter == TextsUpTo(n - 1)
         IN shorter \cup { Append(t, c) : t \in { s \in shorter : Len(s) = n - 1 },
                                          c \in ContentAlphabet }

\* s has sub at position i (1-based)
MatchAt(s, sub, i) ==
    /\ i + Len(sub) - 1 <= Len(s)
    /\ \A j \in 1..Len(sub) : s[i + j - 1] = sub[j]

\* str.count(sub): non-overlapping occurrences, scanning from the left
RECURSIVE CountFrom(_, _, _)
CountFrom(s, sub, i) ==
    IF i + Len(sub) - 1 > Len(s) THEN 0
    ELSE IF MatchAt(s, sub, i) THEN 1 + CountFrom(s, sub, i + Len(sub))
    ELSE CountFrom(s, sub, i + 1)

str_count(s, sub) == CountFrom(s, sub, 1)

\* str.replace(old, new): every non-overlapping occurrence, scanning from the left
RECURSIVE ReplaceFrom(_, _, _, _)
ReplaceFrom(s, old, new, i) ==
    IF i > Len(s) THEN <<>>
    ELSE IF MatchAt(s, old, i) THEN new \o ReplaceFrom(s, old, new, i + Len(old))
    ELSE <<s[i]>> \o ReplaceFrom(s, old, new, i + 1)

\* str.replace(old, new, 1): only the first occurrence
RECURSIVE ReplaceFirstFrom(_, _, _, _)
ReplaceFirstFrom(s, old, new, i) ==
    IF i > Len(s) THEN <<>>
    ELSE IF MatchAt(s, old, i) THEN new \o SubSeq(s, i + Len(old), Len(s))
    ELSE <<s[i]>> \o ReplaceFirstFrom(s, old, new, i + 1)

str_replace_first(s, old, new) == ReplaceFirstFrom(s, old, new, 1)

str_replace(s, old, new) == ReplaceFrom(s, old, new, 1)

\* v.startswith('[') and v.endswith(']')
IsPlaceholder(v) == Len(v) >= 1 /\ v[1] = "[" /\ v[Len(v)] = "]"

\* the translation as it is, no quote escaped
unescaped_translation(t) == t

\* english_translation.replace('"', '\\"').replace("'", "\\'")
escaped_translation(t) ==
    str_replace(str_replace(t, <<DQ>>, <<BS, DQ>>), <<SQ>>, <<BS, SQ>>)

----------------------------------------------------------------------------
(* TranslationApplicator.apply_translations_to_file *)

\* s with item put behind every entry whose key is at least as long
RECURSIVE InsertByLen(_, _)
InsertByLen(s, item) ==
    IF s = <<>> THEN <<item>>
    ELSE IF Len(s[1][1]) >= Len(item[1]) THEN <<s[1]>> \o InsertByLen(Tail(s), item)
    ELSE <<item>> \o s

\* the items in insertion order, as if the sort of line 104 were left out
unsorted_translations(tr) == tr

\* sorted(items, key=lambda x: len(x[0]), reverse=True): stable, longest key first
RECURSIVE sorted_translations(_)
sorted_translations(tr) ==
    IF tr = <<>> THEN <<>>
    ELSE InsertByLen(sorted_translations(SubSeq(tr, 1, Len(tr) - 1)), tr[Len(tr)])

\* run, lines 175-176: the entries whose value is no placeholder
valid_translations(tr) == SelectSeq(tr, LAMBDA e : ~IsPlaceholder(e[2]))

\* one iteration without the skip of lines 109-110
ApplyEntry_no_skip(acc, e) ==
    LET occurrences == str_count(acc.content, e[1])
    IN IF occurrences > 0
       THEN [content |-> str_replace(acc.content, e[1], escaped_translation(e[2])),
             file_replacements |-> acc.file_replacements + occurrences,
             hits |-> Append(acc.hits, occurrences)]
       ELSE [acc EXCEPT !.hits = Append(@, 0)]

\* One iteration of the loop of lines 107-120 on the entry e
ApplyEntry(acc, e) ==
    IF IsPlaceholder(e[2]) THEN [acc EXCEPT !.hits = Append(@, 0)]
    ELSE LET occurrences == str_count(acc.content, e[1])
         IN IF occurrences > 0
            THEN [content |-> str_replace(acc.content, e[1], escaped_translation(e[2])),
                  file_replacements |-> acc.file_replacements + occurrences,
                  hits |-> Append(acc.hits, occurrences)]
            ELSE [acc EXCEPT !.hits = Append(@, 0)]

\* the loop as if it ended after its first entry
ApplyLoop_first_entry(st, n, c) ==
    IF n = 0 THEN [content |-> c, file_replacements |-> 0, hits |-> <<>>]
    ELSE LET first == ApplyEntry([content |-> c, file_replacements |-> 0, hits |-> <<>>],
                                 st[1])
         IN [first EXCEPT !.hits = [i \in 1..n |-> IF i = 1 THEN first.hits[1] ELSE 0]]

\* The loop over the first n entries of st, starting from the content c
RECURSIVE ApplyLoop(_, _, _)
ApplyLoop(st, n, c) ==
    IF n = 0 THEN [content |-> c, file_replacements |-> 0, hits |-> <<>>]
    ELSE ApplyEntry(ApplyLoop(st, n - 1, c), st[n])

\* the call with the test of line 124 replaced by file_replacements > 0
apply_translations_to_file_if_counted ==
    /\ applyCalls < MaxApplyCalls
    /\ LET st == sorted_translations(translations)
           r == ApplyLoop(st, Len(st), fileContent)
       IN /\ original_content' = fileContent
          /\ applyHits' = r.hits
          /\ IF r.file_replacements > 0
             THEN /\ fileContent' = r.content
                  /\ fileWrites' = fileWrites + 1
                  /\ replacements_made' = replacements_made + r.file_replacements
                  /\ applyRet' = TRUE
             ELSE /\ applyRet' = FALSE
                  /\ UNCHANGED <<fileContent, fileWrites, replacements_made>>
    /\ applyCalls' = applyCalls + 1
    /\ UNCHANGED <<translations, runVars, walkVars>>

apply_translations_to_file ==
    /\ applyCalls < MaxApplyCalls
    /\ LET st == sorted_translations(translations)
           r == ApplyLoop(st, Len(st), fileContent)
       IN /\ original_content' = fileContent
          /\ applyHits' = r.hits
          /\ IF r.content # fileContent
             THEN /\ fileContent' = r.content
                  /\ fileWrites' = fileWrites + 1
                  /\ replacements_made' = replacements_made + r.file_replacements
                  /\ applyRet' = TRUE
             ELSE /\ applyRet' = FALSE
                  /\ UNCHANGED <<fileContent, fileWrites, replacements_made>>
    /\ applyCalls' = applyCalls + 1
    /\ UNCHANGED <<translations, runVars, walkVars>>

\* stores: up to MaxKeys entries with distinct keys, in any insertion order
RECURSIVE StoresUpTo(_)
StoresUpTo(n) ==
    IF n = 0 THEN { <<>> }
    ELSE LET shorter == StoresUpTo(n - 1)
         IN shorter \cup
            { Append(s, <<k, v>>) :
                s \in { t \in shorter : Len(t) = n - 1 },
                k \in KeyPool, v \in TransPool }

DistinctKeys(s) == \A i, j \in 1..Len(s) : i # j => s[i][1] # s[j][1]

\* no store file at the path
NoFile == [exists |-> FALSE, valid |-> FALSE, members |-> {}]

\* a store file whose text json.load cannot parse
UnparsableFile == [exists |-> TRUE, valid |-> FALSE, members |-> {}]

\* nothing at a backup path
NoBackup == [exists |-> FALSE, complete |-> FALSE, content |-> <<>>]

\* no backup exists and the Applicator has not run
BackupIdle ==
    /\ backupDir = NoBackup
    /\ backupFile = NoBackup
    /\ lastRun = [mode |-> "none", backup |-> "none"]

\* no tree operation is modelled
WalkIdle ==
    /\ tree = <<>>
    /\ translations_file = <<>>
    /\ walkOp = "none"
    /\ scannedFiles = {}
    /\ processed = <<>>
    /\ modified = {}
    /\ BackupIdle

RunIdle ==
    /\ WalkIdle
    /\ everStored = {}
    /\ threshold = 5
    /\ google_translate_ready = FALSE
    /\ argos_translator_ready = FALSE
    /\ pc = "idle"
    /\ existing_translations = <<>>
    /\ chinese_strings = {}
    /\ new_strings_to_translate = {}
    /\ branch = "none"
    /\ long_strings = {}
    /\ short_strings = {}
    /\ googleLeft = {}
    /\ translation_dict = <<>>
    /\ google_translations = <<>>
    /\ all_translations = <<>>
    /\ batchLog = <<>>
    /\ googleCalled = FALSE
    /\ argosCalls = {}
    /\ savedBefore = NoFile
    /\ runResult = "none"

InitApply ==
    /\ translations \in { s \in StoresUpTo(MaxKeys) : DistinctKeys(s) }
    /\ fileContent \in TextsUpTo(MaxContentLen)
    /\ original_content = fileContent
    /\ replacements_made = 0
    /\ applyRet = FALSE
    /\ applyHits = <<>>
    /\ fileWrites = 0
    /\ applyCalls = 0
    /\ storeFile = NoFile
    /\ RunIdle

NextApply == apply_translations_to_file

SpecApply == InitApply /\ [][NextApply]_vars

----------------------------------------------------------------------------
(* LocalMassTranslator (translate_googletranslate.py) *)

\* the scale model's stand-in for batch_size = 128 (line 254): strings per request
BatchSize == 2

\* a run of n CJK characters
CjkRun(n) == [i \in 1..n |-> "x"]

\* the strings a scan can find: one of each length 2..MaxStrLen
StringPool == { CjkRun(n) : n \in 2..MaxStrLen }

\* values of --threshold: the two special values, the default 5 and two more
Thresholds == {-1, 0, 3, 4, 5}

\* translatedText values the remote backend can answer with, before strip()
RawTranslations == { <<"a">>, <<" ">> }

\* what one call of argostranslate.translate.translate does: it returns a
\* text (before strip()) or raises
ArgosOutcomes ==
    { [kind |-> "text", text |-> <<"a", " ">>], [kind |-> "text", text |-> <<" ">>],
      [kind |-> "exception", text |-> <<>>] }

IsSpace(c) == c = " "

\* str.strip()
RECURSIVE strip(_)
strip(t) ==
    IF t = <<>> THEN t
    ELSE IF IsSpace(t[1]) THEN strip(Tail(t))
    ELSE IF IsSpace(t[Len(t)]) THEN strip(SubSeq(t, 1, Len(t) - 1))
    ELSE t

\* f"[{reason}: {text}]"; the reason code is kept as one element
Placeholder(reason, text) == <<"[", reason, ":", " ">> \o text \o <<"]">>

EmptyDict == [k \in {} |-> <<>>]

\* the new entries alone, as if the existing ones were not copied first
dict_update_new_only(d, new) == new

\* a merge in which a key of both dicts keeps the existing value
dict_update_keep_existing(d, new) ==
    [k \in DOMAIN d \cup DOMAIN new |-> IF k \in DOMAIN d THEN d[k] ELSE new[k]]

\* d.update(new)
dict_update(d, new) ==
    [k \in DOMAIN d \cup DOMAIN new |-> IF k \in DOMAIN new THEN new[k] ELSE d[k]]

\* json.load of the store file: the object's members as a dict
json_load(members) ==
    [k \in { m[1] : m \in members } |-> (CHOOSE m \in members : m[1] = k)[2]]

\* json.dump of a dict: one member per key
json_dump(d) == { <<k, d[k]>> : k \in DOMAIN d }

\* load_existing_translations, lines 431-448: the dict of the file; {} when
\* there is no file and {} when json.load raises (the except of line 444)
load_existing_translations(file) ==
    IF ~file.exists THEN EmptyDict
    ELSE IF file.valid THEN json_load(file.members)
    ELSE EmptyDict

\* save_translations, lines 450-457, run to its end
save_translations(d) == [exists |-> TRUE, valid |-> TRUE, members |-> json_dump(d)]

\* setup_translators, line 49 and lines 65-66: the remote backend is ready
setup_google(T, googleUsable) == googleUsable /\ T # -1

\* setup_translators, lines 84-137: the local backend is ready
setup_argos(T, argosUsable) == argosUsable /\ T # 0

\* translate_with_argos, lines 232-242
translate_with_argos(chinese_text, ready, out) ==
    IF ~ready THEN Placeholder("ARGOS_NOT_READY", chinese_text)
    ELSE IF out.kind = "exception" THEN Placeholder("ARGOS_ERROR", chinese_text)
    ELSE strip(out.text)

\* lines 280-282: one string of a batch answered with status 200
google_entry(original, raw) ==
    LET translated_text == strip(raw)
    IN IF translated_text # <<>> THEN translated_text
       ELSE Placeholder("GOOGLE_API_ERROR", original)

\* lines 275-286: the entries one posted batch adds to translation_dict
batch_entries(batch, status_ok, texts) ==
    [s \in batch |-> IF status_ok THEN google_entry(s, texts[s])
                     ELSE Placeholder("GOOGLE_API_ERROR", s)]

\* lines 322-325: the value returned when anything raised
google_fallback(chinese_strings_arg) ==
    [s \in chinese_strings_arg |-> Placeholder("GOOGLE_API_ERROR", s)]

\* the branches without the one of line 356
translate_all_branch_no_cloud(T, google_ready) ==
    IF T = -1 THEN "local"
    ELSE IF google_ready /\ T > 0 THEN "hybrid"
    ELSE "fallback"

\* the branches chosen by the threshold alone, readiness not looked at
translate_all_branch_no_ready(T, google_ready) ==
    IF T = -1 THEN "local"
    ELSE IF T = 0 THEN "cloud"
    ELSE IF T > 0 THEN "hybrid"
    ELSE "fallback"

\* the branch of translate_all, lines 332, 356, 367, 405
translate_all_branch(T, google_ready) ==
    IF T = -1 THEN "local"
    ELSE IF T = 0 /\ google_ready THEN "cloud"
    ELSE IF google_ready /\ T > 0 THEN "hybrid"
    ELSE "fallback"

\* the split of line 369 with > in place of >=
LongStrings_strict(br, T, strings) ==
    IF br = "cloud" THEN strings
    ELSE IF br = "hybrid" THEN { s \in strings : Len(s) > T }
    ELSE {}

\* the strings translate_all hands to translate_batch_with_google_api
LongStrings(br, T, strings) ==
    IF br = "cloud" THEN strings
    ELSE IF br = "hybrid" THEN { s \in strings : Len(s) >= T }
    ELSE {}

\* the strings translate_all hands to translate_with_argos
ShortStrings(br, T, strings) ==
    IF br = "cloud" THEN {}
    ELSE IF br = "hybrid" THEN { s \in strings : 3 <= Len(s) /\ Len(s) < T }
    ELSE strings

\* every scanned string, as if the store were not consulted
new_strings_unfiltered(scanned, existing) == scanned

\* run lines 511-512 / main lines 608-609: the strings not yet in the store
new_strings(scanned, existing) == scanned \ DOMAIN existing

\* run lines 527-532 / main lines 624-628: merge and save; the run is over
AfterTranslateAll(existing, new_translations) ==
    /\ all_translations' = new_translations
    /\ LET saved == save_translations(dict_update(existing, new_translations))
       IN /\ storeFile' = saved
          /\ everStored' = everStored \cup { m \in saved.members : ~IsPlaceholder(m[2]) }
    /\ runResult' = "saved"
    /\ pc' = "done"

\* translate_batch_with_google_api returned result to translate_all
AfterGoogle(result) ==
    /\ google_translations' = result
    /\ IF branch = "hybrid" /\ short_strings # {}
       THEN /\ all_translations' = result
            /\ pc' = "argos"
            /\ UNCHANGED <<storeFile, runResult, everStored>>
       ELSE AfterTranslateAll(existing_translations, result)

\* A run starts: the translator is constructed, the readiness check of run()
\* (lines 462-476) is made, the store is loaded, the tree is scanned, the
\* strings already in the store are left out and translate_all picks its branch.
StartRun ==
    /\ pc = "idle"
    /\ \E T \in Thresholds, googleUsable \in BOOLEAN, argosUsable \in BOOLEAN,
          viaRun \in BOOLEAN, scanned \in SUBSET StringPool :
         LET g == setup_google(T, googleUsable)
             a == setup_argos(T, argosUsable)
             existing == load_existing_translations(storeFile)
             new == new_strings(scanned, existing)
             br == translate_all_branch(T, g)
             long == LongStrings(br, T, new)
             short == ShortStrings(br, T, new)
             stop == IF viaRun /\ ~g /\ ~a THEN "no_translator"
                     ELSE IF scanned = {} THEN "nothing_found"
                     ELSE IF new = {} THEN "nothing_new"
                     ELSE "go"
             calls_google == br = "cloud" \/ long # {}
         IN /\ threshold' = T
            /\ google_translate_ready' = g
            /\ argos_translator_ready' = a
            /\ savedBefore' = storeFile
            /\ translation_dict' = EmptyDict
            /\ google_translations' = EmptyDict
            /\ batchLog' = <<>>
            /\ argosCalls' = {}
            /\ IF stop # "go"
               THEN /\ runResult' = stop
                    /\ pc' = "done"
                    /\ existing_translations' =
                         IF stop = "no_translator" THEN EmptyDict ELSE existing
                    /\ chinese_strings' = IF stop = "no_translator" THEN {} ELSE scanned
                    /\ new_strings_to_translate' = {}
                    /\ branch' = "none"
                    /\ long_strings' = {}
                    /\ short_strings' = {}
                    /\ googleLeft' = {}
                    /\ googleCalled' = FALSE
                    /\ all_translations' = EmptyDict
                    /\ UNCHANGED <<storeFile, everStored>>
               ELSE /\ existing_translations' = existing
                    /\ chinese_strings' = scanned
                    /\ new_strings_to_translate' = new
                    /\ branch' = br
                    /\ long_strings' = long
                    /\ short_strings' = short
                    /\ googleLeft' = long
                    /\ googleCalled' = calls_google
                    /\ IF calls_google
                       THEN /\ pc' = "google"
                            /\ all_translations' = EmptyDict
                            /\ runResult' = "running"
                            /\ UNCHANGED <<storeFile, everStored>>
                       ELSE IF short # {}
                       THEN /\ pc' = "argos"
                            /\ all_translations' = EmptyDict
                            /\ runResult' = "running"
                            /\ UNCHANGED <<storeFile, everStored>>
                       ELSE AfterTranslateAll(existing, EmptyDict)
    /\ UNCHANGED <<applyVars, walkVars>>

\* translate_batch_with_google_api, lines 262-286: the next batch is posted and
\* answered with status 200, with another status, or the call raises
GoogleBatch ==
    /\ pc = "google"
    /\ IF ~google_translate_ready
       THEN /\ AfterGoogle([s \in long_strings |->
                               Placeholder("GOOGLE_API_NOT_READY", s)])
            /\ UNCHANGED <<translation_dict, batchLog, googleLeft>>
       ELSE \E batch \in SUBSET googleLeft :
              /\ batch # {}
              /\ Cardinality(batch) = IF Cardinality(googleLeft) < BatchSize
                                      THEN Cardinality(googleLeft) ELSE BatchSize
              /\ \/ \E texts \in [batch -> RawTranslations] :
                      LET d == dict_update(translation_dict,
                                           batch_entries(batch, TRUE, texts))
                      IN /\ translation_dict' = d
                         /\ batchLog' = Append(batchLog,
                               [batch |-> batch, outcome |-> "ok"])
                         /\ googleLeft' = googleLeft \ batch
                         /\ IF googleLeft \ batch = {} THEN AfterGoogle(d)
                            ELSE UNCHANGED <<google_translations, all_translations,
                                             storeFile, runResult, everStored, pc>>
                 \/ LET d == dict_update(translation_dict,
                                         batch_entries(batch, FALSE, EmptyDict))
                    IN /\ translation_dict' = d
                       /\ batchLog' = Append(batchLog,
                             [batch |-> batch, outcome |-> "status"])
                       /\ googleLeft' = googleLeft \ batch
                       /\ IF googleLeft \ batch = {} THEN AfterGoogle(d)
                          ELSE UNCHANGED <<google_translations, all_translations,
                                           storeFile, runResult, everStored, pc>>
                 \/ /\ batchLog' = Append(batchLog,
                          [batch |-> batch, outcome |-> "raise"])
                    /\ googleLeft' = {}
                    /\ AfterGoogle(google_fallback(long_strings))
                    /\ UNCHANGED translation_dict
    /\ UNCHANGED <<threshold, google_translate_ready, argos_translator_ready,
                   existing_translations, chinese_strings,
                   new_strings_to_translate, branch, long_strings, short_strings,
                   googleCalled, argosCalls, savedBefore>>
    /\ UNCHANGED <<applyVars, walkVars>>

\* translate_all, the loops of lines 342-353, 389-400 and 416-427: every string
\* of short_strings is passed to translate_with_argos; translate_all returns
ArgosLoop ==
    /\ pc = "argos"
    /\ \E outs \in [short_strings -> ArgosOutcomes] :
         LET local == [s \in short_strings |->
                          translate_with_argos(s, argos_translator_ready, outs[s])]
         IN AfterTranslateAll(existing_translations, dict_update(all_translations, local))
    /\ argosCalls' = short_strings
    /\ UNCHANGED <<threshold, google_translate_ready, argos_translator_ready,
                   existing_translations, chinese_strings,
                   new_strings_to_translate, branch, long_strings, short_strings,
                   googleLeft, translation_dict, google_translations, batchLog,
                   googleCalled, savedBefore>>
    /\ UNCHANGED <<applyVars, walkVars>>

\* The process ends: nothing but the store file outlives it
ProcessExit ==
    /\ pc = "done"
    /\ pc' = "idle"
    /\ threshold' = 5
    /\ google_translate_ready' = FALSE
    /\ argos_translator_ready' = FALSE
    /\ existing_translations' = <<>>
    /\ chinese_strings' = {}
    /\ new_strings_to_translate' = {}
    /\ branch' = "none"
    /\ long_strings' = {}
    /\ short_strings' = {}
    /\ googleLeft' = {}
    /\ translation_dict' = <<>>
    /\ google_translations' = <<>>
    /\ all_translations' = <<>>
    /\ batchLog' = <<>>
    /\ googleCalled' = FALSE
    /\ argosCalls' = {}
    /\ savedBefore' = NoFile
    /\ runResult' = "none"
    /\ UNCHANGED <<storeFile, everStored>>
    /\ UNCHANGED <<applyVars, walkVars>>

ApplyIdle ==
    /\ translations = <<>>
    /\ fileContent = <<>>
    /\ original_content = <<>>
    /\ replacements_made = 0
    /\ applyRet = FALSE
    /\ applyHits = <<>>
    /\ fileWrites = 0
    /\ applyCalls = 0

\* before the first run the output path holds no file or an unparsable one
Init ==
    /\ ApplyIdle
    /\ storeFile \in { NoFile, UnparsableFile }
    /\ RunIdle

Next == StartRun \/ GoogleBatch \/ ArgosLoop \/ ProcessExit

Spec == Init /\ [][Next]_vars

----------------------------------------------------------------------------
(* LocalMassTranslator.extract_chinese_strings_from_file, lines 170-188, on   *)
(* any text.  "x" is a character of the three CJK ranges, "a" a Latin letter, *)
(* " " a whitespace character, "!" one of the punctuation marks of pattern1.  *)

MaxTextLen == 4         \* longest text extracted from

ExtractAlphabet == {"x", "a", " ", "!"}

\* [\u4e00-\u9fff\u3400-\u4dbf\uf900-\ufaff]
IsCjk(c) == c = "x"

\* pattern1's middle class with the Latin letters let in
InPattern1Class_with_latin(c) == IsCjk(c) \/ IsSpace(c) \/ c = "!" \/ c = "a"

\* pattern1's middle class: a CJK character, \s or one of the marks
InPattern1Class(c) == IsCjk(c) \/ IsSpace(c) \/ c = "!"

RECURSIVE ScanTexts(_)
ScanTexts(n) ==
    IF n = 0 THEN { <<>> }
    ELSE LET shorter == ScanTexts(n - 1)
         IN shorter \cup { Append(t, c) : t \in { u \in shorter : Len(u) = n - 1 },
                                          c \in ExtractAlphabet }

\* the last position of the run of pattern1's middle class that starts at i
RECURSIVE ClassRunEnd(_, _)
ClassRunEnd(s, i) ==
    IF i < Len(s) /\ InPattern1Class(s[i + 1]) THEN ClassRunEnd(s, i + 1) ELSE i

\* where the match of pattern1 that starts at the CJK character i ends: the
\* greedy middle gives back characters until a CJK character closes it; the
\* second alternative matches the character alone
Pattern1End(s, i) ==
    LET closers == { j \in (i + 1)..ClassRunEnd(s, i) : IsCjk(s[j]) }
    IN IF closers = {} THEN i
       ELSE CHOOSE j \in closers : \A m \in closers : m <= j

\* re.findall(pattern1, content) from position i on
RECURSIVE matches1(_, _)
matches1(s, i) ==
    IF i > Len(s) THEN {}
    ELSE IF IsCjk(s[i])
         THEN { SubSeq(s, i, Pattern1End(s, i)) } \cup matches1(s, Pattern1End(s, i) + 1)
         ELSE matches1(s, i + 1)

\* the last position of the run of CJK characters that starts at i
RECURSIVE CjkRunEnd(_, _)
CjkRunEnd(s, i) ==
    IF i < Len(s) /\ IsCjk(s[i + 1]) THEN CjkRunEnd(s, i + 1) ELSE i

\* the extraction without its second pattern
matches2_none(s, i) == {}

\* re.findall(pattern2, content) from position i on
RECURSIVE matches2(_, _)
matches2(s, i) ==
    IF i > Len(s) THEN {}
    ELSE IF IsCjk(s[i])
         THEN { SubSeq(s, i, CjkRunEnd(s, i)) } \cup matches2(s, CjkRunEnd(s, i) + 1)
         ELSE matches2(s, i + 1)

\* lines 182-188: both match lists joined, each match stripped and kept when
\* it is not empty and holds a CJK character
extract_chinese_strings(content) ==
    LET all_matches == matches1(content, 1) \cup matches2(content, 1)
        cleaned == { strip(m) : m \in all_matches }
    IN { c \in cleaned : c # <<>> /\ \E j \in 1..Len(c) : IsCjk(c[j]) }

InitExtract ==
    /\ WalkIdle
    /\ translations = <<>>
    /\ fileContent \in ScanTexts(MaxTextLen)
    /\ original_content = <<>>
    /\ replacements_made = 0
    /\ applyRet = FALSE
    /\ applyHits = <<>>
    /\ fileWrites = 0
    /\ applyCalls = 0
    /\ storeFile = NoFile
    /\ everStored = {}
    /\ threshold = 5
    /\ google_translate_ready = FALSE
    /\ argos_translator_ready = FALSE
    /\ pc = "extract"
    /\ existing_translations = <<>>
    /\ chinese_strings = {}
    /\ new_strings_to_translate = {}
    /\ branch = "none"
    /\ long_strings = {}
    /\ short_strings = {}
    /\ googleLeft = {}
    /\ translation_dict = <<>>
    /\ google_translations = <<>>
    /\ all_translations = <<>>
    /\ batchLog = <<>>
    /\ googleCalled = FALSE
    /\ argosCalls = {}
    /\ savedBefore = NoFile
    /\ runResult = "none"

\* extract_chinese_strings_from_file on the file whose text is fileContent
extract_chinese_strings_from_file ==
    /\ pc = "extract"
    /\ chinese_strings' = extract_chinese_strings(fileContent)
    /\ pc' = "extracted"
    /\ UNCHANGED <<storeFile, threshold, google_translate_ready,
                   argos_translator_ready, existing_translations,
                   new_strings_to_translate, branch, long_strings, short_strings,
                   googleLeft, translation_dict, google_translations,
                   all_translations, batchLog, googleCalled, argosCalls,
                   savedBefore, runResult, everStored>>
    /\ UNCHANGED <<applyVars, walkVars>>

NextExtract == extract_chinese_strings_from_file

SpecExtract == InitExtract /\ [][NextExtract]_vars

----------------------------------------------------------------------------
(* Extraction, translation and one Applicator pass on the same text: every   *)
(* string extracted from the text gets a translation in the store, then      *)
(* apply_translations_to_file runs on the text                               *)

\* successful translations without a CJK character: a word and the empty
\* text translation.strip() can give
CoverValues == { <<"a">>, <<>> }

\* the translator's run and load_translations: the store gets one entry per
\* extracted string, in any insertion order
StoreTranslations ==
    /\ pc = "extracted"
    /\ \E value \in [chinese_strings -> CoverValues] :
         \E order \in [1..Cardinality(chinese_strings) -> chinese_strings] :
            /\ \A k \in chinese_strings : \E i \in DOMAIN order : order[i] = k
            /\ translations' = [i \in DOMAIN order |-> <<order[i], value[order[i]]>>]
    /\ pc' = "stored"
    /\ UNCHANGED <<fileContent, original_content, replacements_made, applyRet,
                   applyHits, fileWrites, applyCalls>>
    /\ UNCHANGED <<storeFile, threshold, google_translate_ready,
                   argos_translator_ready, existing_translations, chinese_strings,
                   new_strings_to_translate, branch, long_strings, short_strings,
                   googleLeft, translation_dict, google_translations,
                   all_translations, batchLog, googleCalled, argosCalls,
                   savedBefore, runResult, everStored>>
    /\ UNCHANGED walkVars

\* the Applicator's pass over the text, once the store is there
ApplyPass == pc = "stored" /\ apply_translations_to_file

NextCover ==
    \/ extract_chinese_strings_from_file
    \/ StoreTranslations
    \/ ApplyPass

SpecCover == InitExtract /\ [][NextCover]_vars

----------------------------------------------------------------------------
(* The file tree: scan_directory and the single-file path of main            *)
(* (translate_googletranslate.py), apply_translations_to_directory and the   *)
(* single-file path of run (apply_translations.py).                          *)
(* A file name is a sequence of tokens, "." being a token of its own:        *)
(* a.js is <<"a", ".", "js">>.  Every file holds a key of the store, so a    *)
(* call of apply_translations_to_file on a decodable file writes it.         *)

MaxFiles == 2           \* most files in the tree

\* the directory names both walks prune (lines 207 and 149-152)
ExcludedDirs == {".git", ".svn", "node_modules", "__pycache__", ".vscode",
                 "venv", ".venv", "env", ".env"}

\* translate_googletranslate.py is_text_file, lines 222-227
ScanExtensions ==
    { <<".", e>> : e \in {"py", "js", "html", "htm", "css", "xml", "txt", "md",
        "php", "java", "cpp", "c", "h", "ts", "tsx", "jsx", "vue", "go", "rs",
        "rb", "pl", "sh", "bat", "yml", "yaml", "ini", "cfg", "conf", "log",
        "sql", "csv", "tsv"} }

\* apply_translations.py is_text_file, lines 40-45
ApplyExtensions == ScanExtensions \cup { <<".", "json">> }

\* apply_translations.py is_text_file, lines 48-50
skip_files ==
    { <<"translations", ".", "json">>, <<"apply_translations", ".", "py">>,
      <<"translate", ".", "py">>, <<"translate_old", ".", "py">>,
      <<"translate_local", ".", "py">> }

\* the top directory and one pruned directory below it
DirPool == {".", "node_modules"}

\* a.js, .a.js (hidden), a.bin, A.JS, the default store name and the
\* translator's default output name
NamePool ==
    { <<"a", ".", "js">>, <<".", "a", ".", "js">>, <<"a", ".", "bin">>,
      <<"A", ".", "JS">>, <<"translations", ".", "json">>,
      <<"translations_google_api_v2", ".", "json">> }

\* the store names the Applicator is run with
StoreNames ==
    { <<"translations", ".", "json">>, <<"translations_google_api_v2", ".", "json">> }

FilePool == [dir : DirPool, name : NamePool, decodable : BOOLEAN]

\* str.lower() of a token
lower(tok) == IF tok = "JS" THEN "js" ELSE IF tok = "A" THEN "a" ELSE tok

\* file.startswith('.')
IsHidden(name) == Len(name) >= 1 /\ name[1] = "."

\* os.path.splitext(path)[1]: from the last dot on, when a character other
\* than a dot comes before that dot; else empty
splitext_ext(name) ==
    LET dots == { i \in 1..Len(name) : name[i] = "." }
    IN IF dots = {} THEN <<>>
       ELSE LET last == CHOOSE i \in dots : \A j \in dots : j <= i
            IN IF \E i \in 1..(last - 1) : name[i] # "."
               THEN SubSeq(name, last, Len(name))
               ELSE <<>>

ext_lower(name) == [i \in 1..Len(splitext_ext(name)) |-> lower(splitext_ext(name)[i])]

\* LocalMassTranslator.is_text_file, lines 220-230
scan_is_text_file(name) == ext_lower(name) \in ScanExtensions

\* TranslationApplicator.is_text_file, lines 38-57
apply_is_text_file(name) ==
    IF name \in skip_files THEN FALSE ELSE ext_lower(name) \in ApplyExtensions

\* trees: up to n files with distinct paths, in any walk order
RECURSIVE TreesUpTo(_)
TreesUpTo(n) ==
    IF n = 0 THEN { <<>> }
    ELSE LET shorter == TreesUpTo(n - 1)
         IN shorter \cup
            { Append(t, f) : t \in { u \in shorter : Len(u) = n - 1 }, f \in FilePool }

DistinctPaths(t) ==
    \A i, j \in 1..Len(t) : i # j => (t[i].dir # t[j].dir \/ t[i].name # t[j].name)

\* apply_translations_to_file on f, lines 82-97 and 124-130: False without a
\* write when no encoding decodes the file, else the file is written
apply_writes(f) == f.decodable

\* the walk as if a file no encoding decodes ended it
RECURSIVE WalkStoppingLoop(_, _)
WalkStoppingLoop(t, n) ==
    IF n = 0 THEN [processed |-> <<>>, modified |-> {}, stopped |-> FALSE]
    ELSE LET acc == WalkStoppingLoop(t, n - 1)
             f == t[n]
         IN IF acc.stopped \/ f.dir \in ExcludedDirs \/ IsHidden(f.name)
                           \/ ~apply_is_text_file(f.name)
            THEN acc
            ELSE [processed |-> Append(acc.processed, f),
                  modified |-> IF apply_writes(f) THEN acc.modified \cup {f}
                               ELSE acc.modified,
                  stopped |-> ~apply_writes(f)]

\* apply_translations_to_directory, lines 147-163, over the first n files
RECURSIVE WalkApplyLoop(_, _)
WalkApplyLoop(t, n) ==
    IF n = 0 THEN [processed |-> <<>>, modified |-> {}, stopped |-> FALSE]
    ELSE LET acc == WalkApplyLoop(t, n - 1)
             f == t[n]
         IN IF f.dir \in ExcludedDirs \/ IsHidden(f.name) \/ ~apply_is_text_file(f.name)
            THEN acc
            ELSE [processed |-> Append(acc.processed, f),
                  modified |-> IF apply_writes(f) THEN acc.modified \cup {f}
                               ELSE acc.modified,
                  stopped |-> FALSE]

InitWalk ==
    /\ ApplyIdle
    /\ storeFile = NoFile
    /\ everStored = {}
    /\ threshold = 5
    /\ google_translate_ready = FALSE
    /\ argos_translator_ready = FALSE
    /\ pc = "idle"
    /\ existing_translations = <<>>
    /\ chinese_strings = {}
    /\ new_strings_to_translate = {}
    /\ branch = "none"
    /\ long_strings = {}
    /\ short_strings = {}
    /\ googleLeft = {}
    /\ translation_dict = <<>>
    /\ google_translations = <<>>
    /\ all_translations = <<>>
    /\ batchLog = <<>>
    /\ googleCalled = FALSE
    /\ argosCalls = {}
    /\ savedBefore = NoFile
    /\ runResult = "none"
    /\ tree \in { t \in TreesUpTo(MaxFiles) : DistinctPaths(t) }
    /\ translations_file \in StoreNames
    /\ walkOp = "none"
    /\ scannedFiles = {}
    /\ processed = <<>>
    /\ modified = {}
    /\ BackupIdle

\* LocalMassTranslator.scan_directory, lines 201-218
scan_directory ==
    /\ walkOp = "none"
    /\ walkOp' = "scan_directory"
    /\ scannedFiles' = { tree[i] : i \in { j \in 1..Len(tree) :
                             /\ tree[j].dir \notin ExcludedDirs
                             /\ scan_is_text_file(tree[j].name) } }
    /\ UNCHANGED <<tree, translations_file, processed, modified,
                   backupDir, backupFile, lastRun>>
    /\ UNCHANGED <<applyVars, runVars>>

\* main, lines 581-588: -f names a file of the tree
scan_single_file ==
    /\ walkOp = "none"
    /\ \E i \in 1..Len(tree) : scannedFiles' = { tree[i] }
    /\ walkOp' = "scan_file"
    /\ UNCHANGED <<tree, translations_file, processed, modified,
                   backupDir, backupFile, lastRun>>
    /\ UNCHANGED <<applyVars, runVars>>

\* TranslationApplicator.apply_translations_to_directory, lines 136-167
apply_translations_to_directory ==
    /\ walkOp = "none"
    /\ walkOp' = "apply_directory"
    /\ LET r == WalkApplyLoop(tree, Len(tree))
       IN /\ processed' = r.processed
          /\ modified' = r.modified
    /\ UNCHANGED <<tree, translations_file, scannedFiles,
                   backupDir, backupFile, lastRun>>
    /\ UNCHANGED <<applyVars, runVars>>

\* TranslationApplicator.run, lines 189-215: the target is a file of the tree
apply_single_file ==
    /\ walkOp = "none"
    /\ walkOp' = "apply_file"
    /\ \E i \in 1..Len(tree) :
         IF apply_is_text_file(tree[i].name)
         THEN /\ processed' = << tree[i] >>
              /\ modified' = IF apply_writes(tree[i]) THEN { tree[i] } ELSE {}
         ELSE UNCHANGED <<processed, modified>>
    /\ UNCHANGED <<tree, translations_file, scannedFiles,
                   backupDir, backupFile, lastRun>>
    /\ UNCHANGED <<applyVars, runVars>>

NextWalk ==
    \/ scan_directory
    \/ scan_single_file
    \/ apply_translations_to_directory
    \/ apply_single_file

SpecWalk == InitWalk /\ [][NextWalk]_vars

----------------------------------------------------------------------------
(* TranslationApplicator.run with its backups (lines 169-225, 59-78, 136-163) *)
(* on a directory that holds one text file, or on that file itself, run      *)
(* after run with the same store                                             *)

\* what the copy of a backup does: it succeeds, it raises with nothing at the
\* backup path, or it raises leaving an incomplete copy there
CopyOutcomes == {"ok", "fail_nothing", "fail_partial"}

\* the stores of the runs: no entry or one entry
BackupStores == { <<>> } \cup { << <<k, v>> >> : k \in KeyPool, v \in TransPool }

\* what the copy leaves at a backup path that held old
copy_result(old, content, copy) ==
    IF copy = "ok" THEN [exists |-> TRUE, complete |-> TRUE, content |-> content]
    ELSE IF copy = "fail_partial"
         THEN [exists |-> TRUE, complete |-> FALSE, content |-> <<>>]
         ELSE old

\* a backup that copies the tree whether or not the backup path exists
create_backup_overwriting(old, content, copy) == copy_result(old, content, copy)

\* create_backup, lines 59-78: no copy when the backup path exists
create_backup(old, content, copy) ==
    IF old.exists THEN old ELSE copy_result(old, content, copy)

\* a file backup that is skipped when the backup path exists
copy_file_backup_once(old, content, copy) ==
    IF old.exists THEN old ELSE copy_result(old, content, copy)

\* run, lines 199-207: shutil.copy2(target_path, backup_path)
copy_file_backup(old, content, copy) == copy_result(old, content, copy)

\* apply_translations_to_file (lines 80-130) with the entries tr on the file
ApplyWith(tr) ==
    /\ LET st == sorted_translations(tr)
           r == ApplyLoop(st, Len(st), fileContent)
       IN /\ original_content' = fileContent
          /\ applyHits' = r.hits
          /\ IF r.content # fileContent
             THEN /\ fileContent' = r.content
                  /\ fileWrites' = fileWrites + 1
                  /\ replacements_made' = replacements_made + r.file_replacements
                  /\ applyRet' = TRUE
             ELSE /\ applyRet' = FALSE
                  /\ UNCHANGED <<fileContent, fileWrites, replacements_made>>
    /\ applyCalls' = applyCalls + 1

\* run returned at line 182: nothing was backed up, nothing applied
NoValidTranslations(mode) ==
    /\ lastRun' = [mode |-> mode, backup |-> "not_reached"]
    /\ UNCHANGED <<fileContent, original_content, replacements_made, applyRet,
                   applyHits, fileWrites, applyCalls, backupDir, backupFile>>

\* run on the directory, lines 169-184 and 217-223, then
\* apply_translations_to_directory, lines 136-163
run_directory ==
    /\ applyCalls < MaxApplyCalls
    /\ \E backup \in BOOLEAN, copy \in CopyOutcomes :
         LET valid == valid_translations(translations)
         IN IF valid = <<>> THEN NoValidTranslations("directory")
            ELSE /\ backupDir' = IF backup
                                 THEN create_backup(backupDir, fileContent, copy)
                                 ELSE backupDir
                 /\ lastRun' = [mode |-> "directory",
                                backup |-> IF ~backup THEN "off"
                                           ELSE IF backupDir.exists THEN "exists"
                                           ELSE IF copy = "ok" THEN "ok"
                                           ELSE "failed"]
                 /\ ApplyWith(valid)
                 /\ UNCHANGED backupFile
    /\ UNCHANGED <<translations, runVars, tree, translations_file, walkOp,
                   scannedFiles, processed, modified>>

\* run on the file, lines 169-215
run_single_file ==
    /\ applyCalls < MaxApplyCalls
    /\ \E backup \in BOOLEAN, copy \in CopyOutcomes :
         LET valid == valid_translations(translations)
         IN IF valid = <<>> THEN NoValidTranslations("file")
            ELSE /\ backupFile' = IF backup
                                  THEN copy_file_backup(backupFile, fileContent, copy)
                                  ELSE backupFile
                 /\ lastRun' = [mode |-> "file",
                                backup |-> IF ~backup THEN "off"
                                           ELSE IF copy = "ok" THEN "ok"
                                           ELSE "failed"]
                 /\ ApplyWith(valid)
                 /\ UNCHANGED backupDir
    /\ UNCHANGED <<translations, runVars, tree, translations_file, walkOp,
                   scannedFiles, processed, modified>>

InitBackup ==
    /\ translations \in BackupStores
    /\ fileContent \in TextsUpTo(MaxContentLen)
    /\ original_content = fileContent
    /\ replacements_made = 0
    /\ applyRet = FALSE
    /\ applyHits = <<>>
    /\ fileWrites = 0
    /\ applyCalls = 0
    /\ storeFile = NoFile
    /\ RunIdle

NextBackup == run_directory \/ run_single_file

SpecBackup == InitBackup /\ [][NextBackup]_vars

----------------------------------------------------------------------------
(* Steps 5 and 6 of run (lines 527-532) / main (lines 624-628) on their own:  *)
(* any existing mapping merged with any newly translated mapping and saved    *)

\* translations a mapping can hold
MergeValues == { <<"a">>, <<"a", "a">> }

\* every dict from some of the keys to the values
DictsOver(keys, vals) == UNION { [d -> vals] : d \in SUBSET keys }

InitMerge ==
    /\ ApplyIdle
    /\ WalkIdle
    /\ storeFile = NoFile
    /\ everStored = {}
    /\ threshold = 5
    /\ google_translate_ready = FALSE
    /\ argos_translator_ready = FALSE
    /\ pc = "merge"
    /\ existing_translations \in DictsOver(StringPool, MergeValues)
    /\ all_translations \in DictsOver(StringPool, MergeValues)
    /\ chinese_strings = {}
    /\ new_strings_to_translate = {}
    /\ branch = "none"
    /\ long_strings = {}
    /\ short_strings = {}
    /\ googleLeft = {}
    /\ translation_dict = <<>>
    /\ google_translations = <<>>
    /\ batchLog = <<>>
    /\ googleCalled = FALSE
    /\ argosCalls = {}
    /\ savedBefore = NoFile
    /\ runResult = "running"

\* all_translations = existing_translations.copy(); all_translations.update(
\* new_translations); save_translations(all_translations, output_file)
MergeAndSave ==
    /\ pc = "merge"
    /\ AfterTranslateAll(existing_translations, all_translations)
    /\ UNCHANGED <<threshold, google_translate_ready, argos_translator_ready,
                   existing_translations, chinese_strings,
                   new_strings_to_translate, branch, long_strings, short_strings,
                   googleLeft, translation_dict, google_translations, batchLog,
                   googleCalled, argosCalls, savedBefore>>
    /\ UNCHANGED <<applyVars, walkVars>>

NextMerge == MergeAndSave

SpecMerge == InitMerge /\ [][NextMerge]_vars

----------------------------------------------------------------------------
(* save_translations (lines 450-457) step by step, over a store saved by an  *)
(* earlier run, with the process stopping at any point                       *)

InitSave ==
    /\ ApplyIdle
    /\ WalkIdle
    /\ \E previous \in DictsOver(StringPool, { <<"a">> }) :
         /\ storeFile = save_translations(previous)
         /\ savedBefore = save_translations(previous)
         /\ existing_translations = previous
    /\ all_translations \in DictsOver(StringPool, MergeValues)
    /\ everStored = {}
    /\ threshold = 5
    /\ google_translate_ready = FALSE
    /\ argos_translator_ready = FALSE
    /\ pc = "save"
    /\ chinese_strings = {}
    /\ new_strings_to_translate = {}
    /\ branch = "none"
    /\ long_strings = {}
    /\ short_strings = {}
    /\ googleLeft = {}
    /\ translation_dict = <<>>
    /\ google_translations = <<>>
    /\ batchLog = <<>>
    /\ googleCalled = FALSE
    /\ argosCalls = {}
    /\ runResult = "running"

SaveFrame ==
    UNCHANGED <<threshold, google_translate_ready, argos_translator_ready,
                existing_translations, chinese_strings, new_strings_to_translate,
                branch, long_strings, short_strings, googleLeft, translation_dict,
                google_translations, all_translations, batchLog, googleCalled,
                argosCalls, savedBefore, everStored, applyVars, walkVars>>

\* line 453, open(output_file, 'w'): the file at the store path is truncated
SaveOpen ==
    /\ pc = "save"
    /\ storeFile' = [exists |-> TRUE, valid |-> FALSE, members |-> {}]
    /\ pc' = "writing"
    /\ UNCHANGED runResult
    /\ SaveFrame

\* line 454, json.dump: the text of one more member reaches the file
SaveWrite ==
    /\ pc = "writing"
    /\ \E m \in json_dump(all_translations) \ storeFile.members :
         storeFile' = [storeFile EXCEPT !.members = @ \cup {m}]
    /\ UNCHANGED <<pc, runResult>>
    /\ SaveFrame

\* lines 454-455: the closing brace is written and the file closed
SaveClose ==
    /\ pc = "writing"
    /\ storeFile.members = json_dump(all_translations)
    /\ storeFile' = [storeFile EXCEPT !.valid = TRUE]
    /\ pc' = "done"
    /\ runResult' = "saved"
    /\ SaveFrame

\* the process stops while save_translations is under way
ProcessStops ==
    /\ pc \in {"save", "writing"}
    /\ pc' = "stopped"
    /\ runResult' = "stopped"
    /\ UNCHANGED storeFile
    /\ SaveFrame

NextSave == SaveOpen \/ SaveWrite \/ SaveClose \/ ProcessStops

SpecSave == InitSave /\ [][NextSave]_vars

----------------------------------------------------------------------------
(* translate_local.py: LocalMassTranslator.run (lines 197-229), one run      *)
(* after another against the default output file translations.json           *)

\* what save_translations (lines 188-195) does: it writes the file, open()
\* raises, or json.dump raises after open() truncated the file
SaveOutcomes == {"ok", "open_failed", "write_failed"}

\* translate_text, lines 157-167
local_translate_text(chinese_text, ready, out) ==
    IF ~ready THEN Placeholder("TRANSLATOR_NOT_READY", chinese_text)
    ELSE IF out.kind = "exception" THEN Placeholder("TRANSLATION_ERROR", chinese_text)
    ELSE strip(out.text)

\* a translate_all that leaves out the strings whose translation raised
local_translate_all_without_errors(strings, ready, outs) ==
    [t \in { u \in strings : outs[u].kind # "exception" } |->
        local_translate_text(t, ready, outs[t])]

\* translate_all, lines 169-185: one entry per string of the set
local_translate_all(strings, ready, outs) ==
    [t \in strings |-> local_translate_text(t, ready, outs[t])]

\* save_translations, lines 188-195, on the file that was there
local_save_translations(file, d, save) ==
    IF save = "ok" THEN save_translations(d)
    ELSE IF save = "write_failed" THEN UnparsableFile
    ELSE file

\* the files translations.json can be before the first run: none, an
\* unparsable one, or entries of an earlier tool run
LocalStoreFiles ==
    {NoFile, UnparsableFile}
        \cup { save_translations(d) : d \in DictsOver(StringPool, { <<"a", "a">> }) }

InitLocal ==
    /\ ApplyIdle
    /\ storeFile \in LocalStoreFiles
    /\ RunIdle

\* the variables a run of translate_local.py has no part in
LocalFrame ==
    /\ UNCHANGED <<threshold, google_translate_ready, existing_translations,
                   new_strings_to_translate, branch, long_strings, short_strings,
                   googleLeft, translation_dict, google_translations, batchLog,
                   googleCalled, everStored>>
    /\ UNCHANGED <<applyVars, walkVars>>

\* run, lines 197-229
LocalRun ==
    /\ pc = "idle"
    /\ \E argosAvailable \in BOOLEAN, setupOk \in BOOLEAN,
          found \in SUBSET StringPool, save \in SaveOutcomes :
         \E outs \in [found -> ArgosOutcomes] :
           LET ready == argosAvailable /\ setupOk
               translated == local_translate_all(found, ready, outs)
           IN /\ argos_translator_ready' = ready
              /\ savedBefore' = storeFile
              /\ pc' = "done"
              /\ IF ~ready
                 THEN /\ runResult' = "not_ready"
                      /\ UNCHANGED <<storeFile, chinese_strings, all_translations,
                                     argosCalls>>
                 ELSE /\ chinese_strings' = found
                      /\ IF found = {}
                         THEN /\ runResult' = "nothing_found"
                              /\ UNCHANGED <<storeFile, all_translations, argosCalls>>
                         ELSE /\ argosCalls' = found
                              /\ all_translations' = translated
                              /\ storeFile' = local_save_translations(storeFile,
                                                                      translated, save)
                              /\ runResult' = IF save = "ok" THEN "saved"
                                              ELSE "save_failed"
    /\ LocalFrame

\* the process ends: what it held in memory is gone, the file stays for the
\* next run
LocalExit ==
    /\ pc = "done"
    /\ pc' = "idle"
    /\ argos_translator_ready' = FALSE
    /\ chinese_strings' = {}
    /\ all_translations' = <<>>
    /\ argosCalls' = {}
    /\ savedBefore' = NoFile
    /\ runResult' = "none"
    /\ UNCHANGED storeFile
    /\ LocalFrame

NextLocal == LocalRun \/ LocalExit

SpecLocal == InitLocal /\ [][NextLocal]_vars

----------------------------------------------------------------------------
(* Claims about apply_translations_to_file (SpecApply) *)

\* sub occurs somewhere in s
Occurs(s, sub) == \E i \in 1..Len(s) : MatchAt(s, sub, i)

\* a is a proper substring of b
ProperSubstring(a, b) == Len(a) < Len(b) /\ Occurs(b, a)

\* the entries of the last call, in the order the loop took them
LastSorted == sorted_translations(translations)

\* the entries that are substituted: those whose value is no placeholder
Applied(st) == { i \in 1..Len(st) : ~IsPlaceholder(st[i][2]) }

\* pairs <<iB, iA>> of substituted entries, key A a proper substring of key B
NestedPairs(st) ==
    { p \in Applied(st) \X Applied(st) : ProperSubstring(st[p[2]][1], st[p[1]][1]) }

\* C1 as stated: after a call, for every store in which key A is a proper
\* substring of key B (both with non-placeholder translations), every
\* occurrence of B in the content the call read was replaced by B's entry.
C1_Original ==
    applyCalls >= 1 =>
        \A p \in NestedPairs(LastSorted) :
            applyHits[p[1]] = str_count(original_content, LastSorted[p[1]][1])

\* no substituted entry other than i has a key at least as long as key i
\* that occurs in the content c
NoRivalOccurs(st, i, c) ==
    \A k \in Applied(st) \ {i} :
        Len(st[k][1]) >= Len(st[i][1]) => ~Occurs(c, st[k][1])

\* C1 (amended): whenever key A is a proper substring of key B (both with
\* non-placeholder translations), B's turn comes before A's; every
\* non-overlapping occurrence of B in the content read is replaced by B's
\* entry unless another substituted key at least as long as B occurs in the
\* content; and a content that is exactly B becomes exactly B's quote-escaped
\* translation when that translation holds no key.
C1_LongestMatchFirst ==
    applyCalls >= 1 =>
        \A p \in NestedPairs(LastSorted) :
            LET st == LastSorted
                B == st[p[1]][1]
                tB == escaped_translation(st[p[1]][2])
            IN /\ p[1] < p[2]
               /\ NoRivalOccurs(st, p[1], original_content)
                    => applyHits[p[1]] = str_count(original_content, B)
               /\ (original_content = B /\ \A k \in Applied(st) : ~Occurs(tB, st[k][1]))
                    => fileContent = tB

\* C1 witness: store {x: a, xy: a} with x inserted first, content "xy",
\* one call made: the content is "a", B's translation
C1_Witness ==
    /\ applyCalls = 1
    /\ translations = << << <<"x">>, <<"a">> >>, << <<"x", "y">>, <<"a">> >> >>
    /\ original_content = <<"x", "y">>
    /\ fileContent = <<"a">>
    /\ applyHits = <<1, 0>>

\* every substituted translation is non-empty and, quote-escaped, shares no
\* character with any substituted key
TranslationsDisjointFromKeys(st) ==
    \A i \in Applied(st) :
        /\ st[i][2] # <<>>
        /\ \A k \in Applied(st) :
             \A m \in 1..Len(escaped_translation(st[i][2])), n \in 1..Len(st[k][1]) :
                escaped_translation(st[i][2])[m] # st[k][1][n]

\* the last call found no occurrence of any key, returned False and wrote nothing
SecondRunIsNoOp ==
    /\ \A i \in 1..Len(applyHits) : applyHits[i] = 0
    /\ applyRet = FALSE
    /\ fileContent = original_content
    /\ fileWrites <= 1

\* C2 as stated: for every content and every store, the second of two
\* successive calls finds zero occurrences of every key, returns False and
\* does not write the file.
C2_Original == applyCalls = 2 => SecondRunIsNoOp

\* C2 (amended): for every content and every store whose substituted
\* translations are non-empty and share no character with a substituted key,
\* the second of two successive calls finds zero occurrences of every key,
\* returns False and does not write the file.
C2_Idempotent ==
    (applyCalls = 2 /\ TranslationsDisjointFromKeys(LastSorted)) => SecondRunIsNoOp

\* C2 witness: the first call rewrote the file, the second call was made with
\* the same store and changed nothing
C2_Witness ==
    /\ applyCalls = 2
    /\ TranslationsDisjointFromKeys(LastSorted)
    /\ Applied(LastSorted) # {}
    /\ fileWrites = 1
    /\ replacements_made > 0
    /\ applyRet = FALSE

\* C13: for every store entry whose value is an error placeholder the call
\* performs no replacement of that key: the entry's turn replaces nothing, the
\* content written is the one the store without its placeholder entries (the
\* store run() passes on in both modes) gives, and a store of placeholders
\* only leaves the file unwritten.
C13_PlaceholdersNeverApplied ==
    applyCalls >= 1 =>
        LET st == LastSorted
            kept == sorted_translations(valid_translations(translations))
        IN /\ \A i \in 1..Len(st) : IsPlaceholder(st[i][2]) => applyHits[i] = 0
           /\ fileContent = ApplyLoop(kept, Len(kept), original_content).content
           /\ Applied(st) = {} => (fileContent = original_content /\ ~applyRet)

\* C13 witness: the key of a placeholder entry occurred in the file, another
\* entry was substituted and the file written; the placeholder's key is still
\* in the file
C13_Witness ==
    /\ applyCalls = 1
    /\ applyRet
    /\ \E i \in 1..Len(LastSorted) :
         /\ IsPlaceholder(LastSorted[i][2])
         /\ Occurs(original_content, LastSorted[i][1])
         /\ Occurs(fileContent, LastSorted[i][1])
         /\ applyHits[i] = 0

RECURSIVE SumSeq(_)
SumSeq(q) == IF q = <<>> THEN 0 ELSE q[1] + SumSeq(Tail(q))

\* the content a call that reads c ends its loop with
ContentAfterLoop(c) == ApplyLoop(LastSorted, Len(LastSorted), c).content

RECURSIVE QuotesPrefixed(_)
QuotesPrefixed(t) ==
    IF t = <<>> THEN <<>>
    ELSE (IF t[1] \in {DQ, SQ} THEN <<BS, t[1]>> ELSE <<t[1]>>) \o QuotesPrefixed(Tail(t))

\* the places where the occurrences of k counted in c start: the leftmost
\* occurrence at or after position i, then those after its end
RECURSIVE OccurrenceStarts(_, _, _)
OccurrenceStarts(c, k, i) ==
    IF i + Len(k) - 1 > Len(c) THEN {}
    ELSE IF MatchAt(c, k, i) THEN {i} \cup OccurrenceStarts(c, k, i + Len(k))
    ELSE OccurrenceStarts(c, k, i + 1)

RECURSIVE Flatten(_)
Flatten(pieces) == IF pieces = <<>> THEN <<>> ELSE pieces[1] \o Flatten(Tail(pieces))

\* c with the occurrence at each place of starts turned into new and every
\* character outside those occurrences kept
OccurrencesTurnedInto(c, k, new, starts) ==
    Flatten([j \in 1..Len(c) |->
                IF j \in starts THEN new
                ELSE IF \E p \in starts : p < j /\ j < p + Len(k) THEN <<>>
                ELSE <<c[j]>>])

\* the content when the turn of entry i of the last call came, and after it
ContentBeforeTurn(i) == ApplyLoop(LastSorted, i - 1, original_content).content
ContentAfterTurn(i) == ApplyLoop(LastSorted, i, original_content).content

\* C20: for each key with count > 0 in the current content, every occurrence
\* counted is replaced by the translation in which each double quote and each
\* single quote is prefixed with one backslash, and no other character of the
\* content is altered; an entry that is skipped or counts zero alters nothing.
C20_SubstitutionResult ==
    applyCalls >= 1 =>
        /\ \A i \in 1..Len(LastSorted) :
             LET k == LastSorted[i][1]
                 cur == ContentBeforeTurn(i)
                 starts == OccurrenceStarts(cur, k, 1)
             IN IF applyHits[i] > 0
                THEN /\ Cardinality(starts) = applyHits[i]
                     /\ \A p \in 1..Len(cur) :
                          MatchAt(cur, k, p) =>
                            \E q \in starts : q - Len(k) < p /\ p < q + Len(k)
                     /\ ContentAfterTurn(i) =
                          OccurrencesTurnedInto(cur, k,
                              QuotesPrefixed(LastSorted[i][2]), starts)
                ELSE /\ ContentAfterTurn(i) = cur
                     /\ ~IsPlaceholder(LastSorted[i][2]) => starts = {}
        /\ fileContent = ContentAfterTurn(Len(LastSorted))

\* C20 witness: the file read y xy, the store {xy: "'} turned it in one call
\* into y \" \'
C20_Witness ==
    /\ applyCalls = 1
    /\ translations = << << <<"x", "y">>, <<DQ, SQ>> >> >>
    /\ original_content = <<"y", "x", "y">>
    /\ applyHits = <<1>>
    /\ fileContent = <<"y", BS, DQ, BS, SQ>>
    /\ applyRet

\* every insertion order of the entries of tr
InsertionOrders(tr) ==
    { q \in [1..Len(tr) -> { tr[i] : i \in 1..Len(tr) }] :
        \A i \in 1..Len(tr) : \E j \in 1..Len(tr) : q[j] = tr[i] }

\* C25 as stated: for a fixed file content and a fixed set of store entries,
\* the content apply_translations_to_file produces is the same for every
\* insertion order of the entries.
C25_OrderIndependent ==
    applyCalls >= 1 =>
        \A q \in InsertionOrders(translations) :
            ApplyLoop(sorted_translations(q), Len(q), original_content).content
                = fileContent

----------------------------------------------------------------------------
(* Claims about the translate runs (Spec) *)

\* the store the run found on disk
StoreAtStart == load_existing_translations(savedBefore)

\* the run got as far as deciding what to translate
Filtered == runResult \in {"nothing_new", "running", "saved"}

\* translate_all was called and has returned
Translated == pc = "done" /\ runResult = "saved"

\* every string passed to either backend so far
PostedStrings == UNION { batchLog[i].batch : i \in 1..Len(batchLog) }

Requested == long_strings \cup short_strings \cup argosCalls \cup PostedStrings

C4_Resumable ==
    Filtered =>
        /\ \A s \in chinese_strings :
             (s \in DOMAIN StoreAtStart /\ ~IsPlaceholder(StoreAtStart[s]))
                => s \notin new_strings_to_translate \cup Requested
        /\ new_strings_to_translate = chinese_strings \ DOMAIN StoreAtStart
        /\ Requested \subseteq chinese_strings \ DOMAIN StoreAtStart

\* C4 witness: the scan found a string the store already translates and a new
\* one; only the new one went to a backend
C4_Witness ==
    /\ Translated
    /\ \E s \in chinese_strings :
         s \in DOMAIN StoreAtStart /\ ~IsPlaceholder(StoreAtStart[s])
    /\ Requested # {}
    /\ Requested = chinese_strings \ DOMAIN StoreAtStart

\* C5 as stated: a scanned string whose store entry is an error placeholder
\* is sent to translate_all again.
C5_RetryFailed ==
    Filtered =>
        \A s \in chinese_strings :
            (s \in DOMAIN StoreAtStart /\ IsPlaceholder(StoreAtStart[s]))
                => s \in new_strings_to_translate

\* C6 as stated: the mapping translate_all returns has an entry for every
\* string of its input set.
C6_TotalCoverage ==
    Translated => DOMAIN all_translations = new_strings_to_translate

OnlyLocal ==
    /\ argosCalls = new_strings_to_translate
    /\ ~googleCalled
    /\ batchLog = <<>>

OnlyRemote ==
    /\ googleCalled
    /\ long_strings = new_strings_to_translate
    /\ argosCalls = {}

C9_RemoteUnavailable ==
    (Translated /\ ~google_translate_ready) => OnlyLocal

\* C9 witness: threshold 4, remote not ready, strings of length 2 and 4 were
\* translated by the local capability
C9_Witness ==
    /\ Translated
    /\ threshold = 4
    /\ ~google_translate_ready
    /\ argos_translator_ready
    /\ { CjkRun(2), CjkRun(4) } \subseteq argosCalls
    /\ all_translations[CjkRun(2)] = <<"a">>
    /\ all_translations[CjkRun(4)] = <<"a">>

\* C10 as stated: when the call for one batch raises or returns a non-success
\* status, the strings of that batch get an error placeholder, every batch is
\* still posted, and each string of a batch answered with success keeps the
\* result of its own batch.
C10_BatchIsolation ==
    (Translated /\ googleCalled) =>
        /\ PostedStrings = long_strings
        /\ \A i \in 1..Len(batchLog) :
             \A s \in batchLog[i].batch :
                IF batchLog[i].outcome = "ok"
                THEN google_translations[s] = translation_dict[s]
                ELSE google_translations[s] = Placeholder("GOOGLE_API_ERROR", s)

\* the run found a store file that json.load could not parse
StoreUnparsableAtStart == savedBefore.exists /\ ~savedBefore.valid

\* C11 as stated: when the store file exists but cannot be parsed, the run
\* aborts before any file is written: it calls no backend, saves nothing and
\* the store file keeps the content it had.
C11_LoadFailureIsFatal ==
    (StoreUnparsableAtStart /\ runResult # "none") =>
        /\ runResult \notin {"running", "saved"}
        /\ storeFile = savedBefore

\* the dict now in the store file
Stored == load_existing_translations(storeFile)

\* C12: the merged store equals the existing mapping with every key of the
\* newly translated mapping added or overwritten by the new value; every
\* existing key absent from the new mapping keeps its value.
C12_MergeSemantics ==
    (pc = "done" /\ runResult = "saved") =>
        /\ storeFile.exists /\ storeFile.valid
        /\ DOMAIN Stored = DOMAIN existing_translations \cup DOMAIN all_translations
        /\ \A k \in DOMAIN all_translations : Stored[k] = all_translations[k]
        /\ \A k \in DOMAIN existing_translations \ DOMAIN all_translations :
             Stored[k] = existing_translations[k]

\* C12 witness: merge({A: a, C: a}, {A: aa, B: a}) was saved as
\* {A: aa, B: a, C: a}: A overwritten, B added, C kept
C12_Witness ==
    /\ pc = "done"
    /\ existing_translations = (CjkRun(2) :> <<"a">>) @@ (CjkRun(4) :> <<"a">>)
    /\ all_translations = (CjkRun(2) :> <<"a", "a">>) @@ (CjkRun(3) :> <<"a">>)
    /\ Stored = (CjkRun(2) :> <<"a", "a">>) @@ (CjkRun(3) :> <<"a">>)
                    @@ (CjkRun(4) :> <<"a">>)

IsLatin(c) == c = "a"

\* C14: for every text, every string extract_chinese_strings_from_file
\* returns consists only of CJK characters, whitespace and the punctuation
\* marks of pattern1, begins and ends with a CJK character, and holds no
\* Latin letter.
C14_NoLatinExtracted ==
    pc = "extracted" =>
        \A m \in chinese_strings :
            /\ Len(m) >= 1
            /\ IsCjk(m[1]) /\ IsCjk(m[Len(m)])
            /\ \A j \in 1..Len(m) :
                 /\ m[j] \in {"x", " ", "!"}
                 /\ ~IsLatin(m[j])
            /\ Occurs(fileContent, m)

\* C14 witness: from the text x!xa the strings x!x and x were extracted,
\* the Latin letter ending the first
C14_Witness ==
    /\ pc = "extracted"
    /\ fileContent = <<"x", "!", "x", "a">>
    /\ chinese_strings = { <<"x", "!", "x">>, <<"x">> }

\* positions i..j of s are a maximal contiguous run of CJK characters
MaximalCjkRun(s, i, j) ==
    /\ i <= j
    /\ \A m \in i..j : IsCjk(s[m])
    /\ i = 1 \/ ~IsCjk(s[i - 1])
    /\ j = Len(s) \/ ~IsCjk(s[j + 1])

\* C23: for every text, every maximal contiguous run of CJK characters of
\* the text, also one directly next to a Latin letter, is an element of the
\* set extraction returns, besides any longer phrase that contains it.
C23_StrictPassComplete ==
    pc = "extracted" =>
        \A i, j \in 1..Len(fileContent) :
            MaximalCjkRun(fileContent, i, j) => SubSeq(fileContent, i, j) \in chinese_strings

\* C23 witness: from the text x xa the phrase x x and the run x, the one
\* ended by the Latin letter, were extracted
C23_Witness ==
    /\ pc = "extracted"
    /\ fileContent = <<"x", " ", "x", "a">>
    /\ MaximalCjkRun(fileContent, 3, 3)
    /\ chinese_strings = { <<"x", " ", "x">>, <<"x">> }

\* the value is the placeholder a backend that is not ready answers with
IsNotReadyPlaceholder(v) ==
    Len(v) >= 2 /\ v[1] = "[" /\ v[2] \in {"ARGOS_NOT_READY", "GOOGLE_API_NOT_READY"}

\* C24 as stated: whenever exactly one of the two backends is ready, no
\* string translate_all dispatches receives a NOT_READY placeholder; when
\* neither is ready the run aborts before scanning or writing the store.
C24_DegradeToReady ==
    /\ (Translated /\ google_translate_ready # argos_translator_ready) =>
          \A k \in DOMAIN all_translations : ~IsNotReadyPlaceholder(all_translations[k])
    /\ (runResult # "none" /\ ~google_translate_ready /\ ~argos_translator_ready) =>
          /\ runResult = "no_translator"
          /\ chinese_strings = {}
          /\ storeFile = savedBefore

----------------------------------------------------------------------------
(* Claims about extraction followed by one Applicator pass (SpecCover) *)

HasCjk(t) == \E j \in 1..Len(t) : IsCjk(t[j])

\* the store holds a successful translation without a CJK character for m
TranslatedWithoutCjk(m) ==
    \E i \in 1..Len(translations) :
        /\ translations[i][1] = m
        /\ ~IsPlaceholder(translations[i][2])
        /\ ~HasCjk(translations[i][2])

\* C22: if the store holds a successful translation containing no CJK
\* character for every string extraction returns for a text, then after one
\* Applicator pass over that text the content contains no CJK character.
C22_FullCoverage ==
    (pc = "stored" /\ applyCalls >= 1
        /\ \A m \in extract_chinese_strings(original_content) : TranslatedWithoutCjk(m))
      => ~HasCjk(fileContent)

\* C22 witness: the text xaxx gave the strings xx and x; with both
\* translated to a, one pass turned it into aaa
C22_Witness ==
    /\ pc = "stored"
    /\ applyCalls = 1
    /\ original_content = <<"x", "a", "x", "x">>
    /\ chinese_strings = { <<"x">>, <<"x", "x">> }
    /\ \A m \in chinese_strings : TranslatedWithoutCjk(m)
    /\ fileContent = <<"a", "a", "a">>

----------------------------------------------------------------------------
(* Claims about the Applicator's backups (SpecBackup) *)

\* the step is a run in the given mode that got as far as the substitution
RunStep(mode) == applyCalls' = applyCalls + 1 /\ lastRun'.mode = mode

\* the content the substitution of a run that reads c writes or leaves
ContentAfterRun(c) ==
    LET st == sorted_translations(valid_translations(translations))
    IN ApplyLoop(st, Len(st), c).content

\* C21: in directory mode with backup enabled the backup is attempted before
\* any file of the tree is written; if the backup path exists no copy is made,
\* so the backup keeps what the first backed-up run captured through every
\* later run; a failed backup does not stop the run.
C21_DirectoryBackupOnce ==
    [][ /\ backupDir.exists => backupDir' = backupDir
        /\ (RunStep("directory") /\ lastRun'.backup = "ok") =>
              backupDir' = [exists |-> TRUE, complete |-> TRUE, content |-> fileContent]
        /\ (RunStep("directory") /\ lastRun'.backup \in {"failed", "exists"}) =>
              fileContent' = ContentAfterRun(fileContent)
        /\ (~backupDir.exists /\ backupDir'.exists) =>
              (RunStep("directory") /\ lastRun'.backup \in {"ok", "failed"}) ]_vars

\* C21 witness: two directory runs with backup; both rewrote the file, the
\* second found the backup and left it: it still holds the content the
\* first run started from
C21_Witness ==
    /\ applyCalls = 2
    /\ fileWrites = 2
    /\ lastRun = [mode |-> "directory", backup |-> "exists"]
    /\ backupDir.exists /\ backupDir.complete
    /\ backupDir.content # original_content
    /\ backupDir.content # fileContent
    /\ ~backupFile.exists

\* C26: in single-file mode with backup enabled the file's current content
\* is copied to the backup path before the file is rewritten, replacing any
\* backup already there, so after the run the backup equals the content the
\* run started from; a failed copy does not stop the substitution; without
\* backup the backup path is left alone.
C26_SingleFileBackup ==
    [][ /\ (RunStep("file") /\ lastRun'.backup = "ok") =>
              /\ backupFile' = [exists |-> TRUE, complete |-> TRUE, content |-> fileContent]
              /\ fileContent' = ContentAfterRun(fileContent)
        /\ (RunStep("file") /\ lastRun'.backup = "failed") =>
              fileContent' = ContentAfterRun(fileContent)
        /\ (RunStep("file") /\ lastRun'.backup = "off") => backupFile' = backupFile
        /\ backupFile' # backupFile => RunStep("file") ]_vars

\* C26 witness: two single-file runs with backup; both rewrote the file, and
\* the backup holds the content the second run started from, not the first
C26_Witness ==
    /\ applyCalls = 2
    /\ fileWrites = 2
    /\ lastRun = [mode |-> "file", backup |-> "ok"]
    /\ backupFile = [exists |-> TRUE, complete |-> TRUE, content |-> original_content]
    /\ backupFile.content # fileContent
    /\ ~backupDir.exists

----------------------------------------------------------------------------
(* Claims about the file tree (SpecWalk) *)

\* the file is one the file filter keeps out: its extension is outside the
\* allowlist, its name starts with a dot, or it lies under an excluded
\* directory
FilteredOut(f, extensions) ==
    \/ ext_lower(f.name) \notin extensions
    \/ IsHidden(f.name)
    \/ f.dir \in ExcludedDirs

\* C16 as stated: no file with an extension outside the allowlist, no hidden
\* file and no file under an excluded directory is ever scanned or modified,
\* by scan_directory or by the Applicator in either mode.
C16_FileFilter ==
    /\ walkOp = "scan_directory" =>
          \A f \in scannedFiles : ~FilteredOut(f, ScanExtensions)
    /\ walkOp \in {"apply_directory", "apply_file"} =>
          \A f \in modified : ~FilteredOut(f, ApplyExtensions)

\* the store file, when it lies in the tree
IsStoreFile(f) == f.dir = "." /\ f.name = translations_file

\* C17 as stated: whatever store path the Applicator is run with, if the
\* store file lies inside the target tree the Applicator never rewrites it.
C17_StoreNeverTarget ==
    walkOp \in {"apply_directory", "apply_file"} =>
        \A f \in modified : ~IsStoreFile(f)

\* the files of the tree the directory walk hands to apply_translations_to_file
Eligible ==
    { tree[i] : i \in { j \in 1..Len(tree) :
        /\ tree[j].dir \notin ExcludedDirs
        /\ ~IsHidden(tree[j].name)
        /\ apply_is_text_file(tree[j].name) } }

\* C18: a file that fails to decode in all four encodings is not written
\* (apply_translations_to_file returns False), and the directory walk goes
\* on to process every remaining eligible file.
C18_UndecodableSkipped ==
    /\ walkOp \in {"apply_directory", "apply_file"} =>
          \A f \in modified : f.decodable
    /\ walkOp = "apply_directory" =>
          /\ { processed[i] : i \in 1..Len(processed) } = Eligible
          /\ modified = { f \in Eligible : f.decodable }

\* C18 witness: the walk met an undecodable eligible file first, left it
\* unwritten, and then processed and wrote an eligible file after it
C18_Witness ==
    /\ walkOp = "apply_directory"
    /\ Len(tree) = 2
    /\ Len(processed) = 2
    /\ ~processed[1].decodable
    /\ processed[2].decodable
    /\ modified = { processed[2] }

----------------------------------------------------------------------------
(* Claims about the local-only translator (SpecLocal) *)

\* the keys of the members of a store file
MemberKeys(file) == { m[1] : m \in file.members }

\* C27: a run of translate_local.py that saves writes translations.json with
\* exactly one entry per string found by its scan, each the translation made
\* in this run, so an entry that was in the file under a key the scan did not
\* find is gone; when the translator is not ready or the scan finds no
\* string the file is left as it was.
C27_LocalDoesNotMerge ==
    /\ runResult = "saved" =>
          /\ storeFile.exists /\ storeFile.valid
          /\ MemberKeys(storeFile) = chinese_strings
          /\ Cardinality(storeFile.members) = Cardinality(chinese_strings)
          /\ storeFile.members = json_dump(all_translations)
          /\ \A m \in savedBefore.members :
                m[1] \notin chinese_strings => m[1] \notin MemberKeys(storeFile)
    /\ runResult \in {"not_ready", "nothing_found"} => storeFile = savedBefore

\* C27 witness: the file held entries for the 2- and the 4-character string,
\* the scan found the 3- and the 4-character string, one translation raised;
\* the saved file has the two scanned keys only, the 4-character one with its
\* new value
C27_Witness ==
    /\ runResult = "saved"
    /\ savedBefore = save_translations(
            [k \in {CjkRun(2), CjkRun(4)} |-> <<"a", "a">>])
    /\ chinese_strings = {CjkRun(3), CjkRun(4)}
    /\ storeFile = save_translations(
            (CjkRun(3) :> Placeholder("TRANSLATION_ERROR", CjkRun(3)))
                @@ (CjkRun(4) :> <<"a">>))

----------------------------------------------------------------------------
(* Claims about save_translations (SpecSave) *)

\* C19 as stated: if the process stops at any point during save_translations,
\* the store path holds either the complete previous store or the complete
\* new store, never an empty or partially written file.
C19_CrashSafeSave ==
    pc = "stopped" =>
        \/ storeFile = savedBefore
        \/ storeFile = save_translations(all_translations)

====
